---- MODULE Spec2Model ----
(***************************************************************************)
(* A model of EyesUp.py: one run of main() -- menu and choice, the OAuth2   *)
(* token request (get_opensky_token), the state-vector request and the     *)
(* per-row report loop (find_airplanes) -- and the pure helper             *)
(* degrees_to_cardinal.                                                    *)
(*                                                                         *)
(* Representation.                                                         *)
(*   - A Python value that may be None is a tuple: None is << >> and a     *)
(*     present value v is <<v>>.                                           *)
(*   - A float is a fixed-point integer in hundredths (0.3 is 30, 11.25 is *)
(*     1125).  The inputs are chosen where binary floating point and exact *)
(*     arithmetic agree (see Fixed1 and degrees_to_cardinal).              *)
(*   - A callsign is a sequence of one-character strings, so that strip()  *)
(*     is computed; what is printed is a string.                           *)
(*   - `out` is the console: one entry per message block, by kind.         *)
(***************************************************************************)
EXTENDS Integers, Sequences, FiniteSets, TLC

VARIABLES
    client_id,      \* OPENSKY_CLIENT_ID, read from the environment at import
    client_secret,  \* OPENSKY_CLIENT_SECRET
    pc,             \* position of the run: main, token, query, loop, done
    choice,         \* what input() returned in main
    token,          \* main's local `token`
    tokenCalls,     \* number of requests.post calls to TOKEN_URL
    queryCalls,     \* number of requests.get calls to API_URL
    tokenResp,      \* what requests.post did in get_opensky_token
    queryResp,      \* what requests.get did in find_airplanes
    rowsLeft,       \* rows of plane_list the for loop has not reached yet
    row,            \* plane_vector of the latest loop iteration
    report,         \* the texts the latest loop iteration computed
    out,            \* console output, one entry per message block
    d,              \* argument of a direct degrees_to_cardinal call
    cardinal        \* its result

vars == <<client_id, client_secret, pc, choice, token, tokenCalls, queryCalls,
          tokenResp, queryResp, rowsLeft, row, report, out, d, cardinal>>

(***************************************************************************)
(* Bounds of the model.                                                    *)
(***************************************************************************)
MaxRows == 2          \* longest `states` list of a query response
MaxCallsignLen == 2   \* longest callsign, in characters
MaxGrid == 1440       \* degrees_to_cardinal is called on k * 0.25 degrees, k up to this

(***************************************************************************)
(* Python values.                                                          *)
(***************************************************************************)
None == << >>
Some(v) == <<v>>
Val(o) == o[1]

\* bool(x) of an optional string: None and "" are false.
Truthy(o) == o # None /\ Val(o) # ""

\* bool(x) of an optional character sequence: None and the empty one are false.
TruthySeq(o) == o # None /\ Len(Val(o)) > 0

\* bool(x) of an optional number: None and 0 are false.
TruthyNumber(o) == o # None /\ Val(o) # 0

\* int(x) of a float held in hundredths: truncation toward zero.
IntOf(h) == IF h >= 0 THEN h \div 100 ELSE -((-h) \div 100)

Abs(h) == IF h >= 0 THEN h ELSE -h

\* f"{x:.1f}" of a non-negative float held in hundredths.  Exact for every h
\* whose last digit is not 5 (no tie); the inputs below have none.
Fixed1(h) ==
    LET tenths == (h + 5) \div 10
    IN  ToString(tenths \div 10) \o "." \o ToString(tenths % 10)

(***************************************************************************)
(* degrees_to_cardinal.  d is in hundredths of a degree.  Python's round() *)
(* rounds to the nearest integer and a tie to the even one; d / 22.5 is a  *)
(* tie exactly at the odd multiples of 11.25, where the float quotient is  *)
(* exact, so the exact arithmetic here is the float arithmetic there.      *)
(***************************************************************************)
dirs == <<"N", "NNE", "NE", "ENE", "E", "ESE", "SE", "SSE",
          "S", "SSW", "SW", "WSW", "W", "WNW", "NW", "NNW">>

\* round(n / m) for m > 0, ties to even.
Round(n, m) ==
    LET q == n \div m
        r == n % m
    IN  IF 2 * r < m THEN q
        ELSE IF 2 * r > m THEN q + 1
        ELSE IF q % 2 = 0 THEN q ELSE q + 1

\* int(n / m) in place of round(n / m): the sector the heading lies past.
degrees_to_cardinal_trunc(deg) ==
    LET ix == deg \div (36000 \div Len(dirs))
    IN  dirs[(ix % Len(dirs)) + 1]

degrees_to_cardinal(deg) ==
    LET ix == Round(deg, 36000 \div Len(dirs))
    IN  dirs[(ix % Len(dirs)) + 1]

(***************************************************************************)
(* The texts of one report (find_airplanes, the loop body).                *)
(***************************************************************************)
Unknown == "Unknown"

Whitespace == {" "}

RECURSIVE LStrip(_)
LStrip(s) == IF s # << >> /\ Head(s) \in Whitespace THEN LStrip(Tail(s)) ELSE s

RECURSIVE RStrip(_)
RStrip(s) ==
    IF s # << >> /\ s[Len(s)] \in Whitespace THEN RStrip(SubSeq(s, 1, Len(s) - 1)) ELSE s

\* str.strip()
Strip(s) == RStrip(LStrip(s))

\* The string a character sequence prints as.
RECURSIVE Str(_)
Str(s) == IF s = << >> THEN "" ELSE Head(s) \o Str(Tail(s))

\* plane_vector[1].strip() if plane_vector[1] else "Unknown"
CallsignText(c) == IF TruthySeq(c) THEN Str(Strip(Val(c))) ELSE Unknown

\* The noise threshold of the vertical rate, 0.3 m/s, in hundredths.
Threshold == 30

\* >= and <= in place of > and <.
StatusText_inclusive(on_ground, vr) ==
    IF on_ground THEN "On the ground"
    ELSE IF vr = None THEN "In the air (level)"
    ELSE IF Val(vr) >= Threshold THEN "Climbing (" \o Fixed1(Val(vr)) \o " m/s)"
    ELSE IF Val(vr) <= -Threshold THEN "Descending (" \o Fixed1(Abs(Val(vr))) \o " m/s)"
    ELSE "In the air (level)"

StatusText(on_ground, vr) ==
    IF on_ground THEN "On the ground"
    ELSE IF vr = None THEN "In the air (level)"
    ELSE IF Val(vr) > Threshold THEN "Climbing (" \o Fixed1(Val(vr)) \o " m/s)"
    ELSE IF Val(vr) < -Threshold THEN "Descending (" \o Fixed1(Abs(Val(vr))) \o " m/s)"
    ELSE "In the air (level)"

\* f"{int(x)} m" if x is not None else "Unknown"
AltitudeText(a) == IF a # None THEN ToString(IntOf(Val(a))) \o " m" ELSE Unknown

\* `velocity_ms or 0` in place of the None test.
VelocityText_zero(v) ==
    ToString(IntOf(((IF v # None THEN Val(v) ELSE 0) * 36) \div 10)) \o " km/h"

\* f"{int(velocity_ms * 3.6)} km/h" if velocity_ms is not None else "Unknown"
VelocityText(v) ==
    IF v # None THEN ToString(IntOf((Val(v) * 36) \div 10)) \o " km/h" ELSE Unknown

TrackText(t) ==
    IF t # None
    THEN ToString(IntOf(Val(t))) \o "° (" \o degrees_to_cardinal(Val(t)) \o ")"
    ELSE Unknown

\* The local-time rendering depends on the host's time zone; it is kept as a
\* text that names the instant.
TimestampText(t) ==
    IF TruthyNumber(t) THEN "localtime(" \o ToString(Val(t)) \o ")" ELSE Unknown

(***************************************************************************)
(* Response rows.  A row is positional: plane_vector[i] is Item(r, i).     *)
(***************************************************************************)
Item(r, i) == r[i + 1]

\* The positions the loop body reads, in the order it reads them.
Positions == {1, 2, 3, 7, 8, 9, 10, 11, 13}

\* plane_vector[i] raises IndexError when the row is too short.
RaisesIndexError(r) == \E i \in Positions : i >= Len(r)

\* The texts the loop body prints for one row.
FormatRow(r) ==
    [callsign    |-> CallsignText(Item(r, 1)),
     country     |-> Item(r, 2),
     status      |-> StatusText(Item(r, 8), Item(r, 11)),
     altitude    |-> AltitudeText(Item(r, 7)),
     geoAltitude |-> AltitudeText(Item(r, 13)),
     velocity    |-> VelocityText(Item(r, 9)),
     track       |-> TrackText(Item(r, 10)),
     lastUpdate  |-> TimestampText(Item(r, 3))]

NoReport ==
    [callsign |-> "", country |-> "", status |-> "", altitude |-> "",
     geoAltitude |-> "", velocity |-> "", track |-> "", lastUpdate |-> ""]

\* A full row of the provider: 17 positions, of which the loop reads nine.
MkRow(cs, tp, baro, og, vel, trk, vr, geo) ==
    <<"4a9c01", cs, "Sweden", tp, tp, None, None, baro, og, vel, trk, vr, None, geo,
      None, FALSE, 0>>

SeqsUpTo(S, n) == UNION {[1..k -> S] : k \in 0..n}

Callsigns == {None} \cup {Some(c) : c \in SeqsUpTo({"A", " "}, MaxCallsignLen)}

\* In hundredths of m/s; none ends in 5 (see Fixed1).
VerticalRates == {None} \cup {Some(v) : v \in {-120, -31, -30, -29, 0, 29, 30, 31, 120}}

Tracks == {None} \cup {Some(t) : t \in {0, 1100, 1125, 1130, 9000, 18000, 35000, 36000}}

BaseRow ==
    MkRow(Some(<<"A">>), Some(1700000000), Some(1000000), FALSE, Some(22000),
          Some(9000), Some(120), Some(1020000))

\* Every subset of the nullable fields null, on the ground or not.
NullPatternRows ==
    {MkRow(cs, tp, baro, og, vel, trk, vr, geo) :
        cs \in {None, Some(<<"A">>)}, tp \in {None, Some(1700000000)},
        baro \in {None, Some(1000000)}, og \in BOOLEAN, vel \in {None, Some(22000)},
        trk \in {None, Some(9000)}, vr \in {None, Some(120)},
        geo \in {None, Some(1020000)}}

ValueRows ==
    {MkRow(cs, Some(1700000000), Some(1000000), FALSE, Some(22000), Some(9000),
           Some(120), Some(1020000)) : cs \in Callsigns}
    \cup {MkRow(Some(<<"A">>), Some(1700000000), Some(1000000), og, Some(22000),
                Some(9000), vr, Some(1020000)) : og \in BOOLEAN, vr \in VerticalRates}
    \cup {MkRow(Some(<<"A">>), tp, Some(-1050), FALSE, Some(10000), trk, None,
                Some(1020050)) : tp \in {Some(0), Some(1700000000)}, trk \in Tracks}

\* Rows cut short of the positions the loop reads.
ShortRows == {SubSeq(BaseRow, 1, n) : n \in {2, 12, 13}}

Rows == NullPatternRows \cup ValueRows \cup ShortRows

(***************************************************************************)
(* What the network can do to a request.                                   *)
(***************************************************************************)
Statuses == {200, 401, 503}

\* response.raise_for_status() raises on a 4xx or 5xx status.
RaisesForStatus(status) == status >= 400 /\ status < 600

NoResponse == [kind |-> "none", status |-> 0, format |-> "text", access_token |-> None]

\* requests.post raised (timeout, DNS, refused), or returned a response whose
\* body is no JSON, a JSON array, or a JSON object with or without access_token.
TokenResponses ==
    {[kind |-> "exception", status |-> 0, format |-> "text", access_token |-> None]}
    \cup {[kind |-> "response", status |-> st, format |-> f, access_token |-> None] :
             st \in Statuses, f \in {"text", "array", "object"}}
    \cup {[kind |-> "response", status |-> st, format |-> "object", access_token |-> t] :
             st \in Statuses, t \in {Some(""), Some("T")}}

NoQueryResponse == [kind |-> "none", status |-> 0, format |-> "text", states |-> "absent", len |-> 0]

\* `states` is absent, null or a list of len rows.
QueryResponses ==
    {[kind |-> "exception", status |-> 0, format |-> "text", states |-> "absent", len |-> 0]}
    \cup {[kind |-> "response", status |-> st, format |-> f, states |-> "absent", len |-> 0] :
             st \in Statuses, f \in {"text", "array", "object"}}
    \cup {[kind |-> "response", status |-> st, format |-> "object", states |-> "null", len |-> 0] :
             st \in Statuses}
    \cup {[kind |-> "response", status |-> st, format |-> "object", states |-> "list", len |-> n] :
             st \in Statuses, n \in 0..MaxRows}

\* The try block raised before the body was used: the request itself,
\* raise_for_status(), response.json(), or .get on what is not an object.
RequestRaised(resp) ==
    \/ resp.kind = "exception"
    \/ RaisesForStatus(resp.status)
    \/ resp.format # "object"

(***************************************************************************)
(* The run.                                                                *)
(***************************************************************************)
\* The keys of LOCATIONS.
LOCATIONS == {"1", "2", "3"}

Choices == LOCATIONS \cup {"4", ""}

Credentials == {None, Some(""), Some("secret")}

\* `and` in place of `or`.
MissingCredentials_both(id, secret) == ~Truthy(id) /\ ~Truthy(secret)

\* not OPENSKY_CLIENT_ID or not OPENSKY_CLIENT_SECRET
MissingCredentials(id, secret) == ~Truthy(id) \/ ~Truthy(secret)

\* What get_opensky_token returns on a response.
TokenOf(resp) == IF RequestRaised(resp) THEN None ELSE resp.access_token

\* What get_opensky_token prints on a response.
TokenNotice(resp) == IF RequestRaised(resp) THEN "ERR_TOKEN" ELSE "SUCCESS_TOKEN"

\* find_airplanes is called whatever get_opensky_token returned.
AfterToken_always(t) == "query"

\* get_opensky_token is called again until it returns a token.
AfterToken_retry(t) == IF Truthy(t) THEN "query" ELSE "token"

\* main: `if token:` calls find_airplanes; otherwise main returns.
AfterToken(t) == IF Truthy(t) THEN "query" ELSE "done"

\* `plane_list is None` in place of `not plane_list`.
PlaneListEmpty_none(resp) == resp.states # "list"

\* not plane_list: `states` absent, null or an empty list.
PlaneListEmpty(resp) == resp.states # "list" \/ resp.len = 0

Init ==
    /\ client_id \in Credentials
    /\ client_secret \in Credentials
    /\ pc = "main"
    /\ choice = ""
    /\ token = None
    /\ tokenCalls = 0
    /\ queryCalls = 0
    /\ tokenResp = NoResponse
    /\ queryResp = NoQueryResponse
    /\ rowsLeft = 0
    /\ row = << >>
    /\ report = NoReport
    /\ out = << >>
    /\ d = 0
    /\ cardinal = ""

\* main up to the call of get_opensky_token: the menu, input(), the test of
\* the choice.
Main ==
    /\ pc = "main"
    /\ \E c \in Choices :
        /\ choice' = c
        /\ IF c \in LOCATIONS
           THEN /\ out' = out \o <<"MENU">>
                /\ pc' = "token"
           ELSE /\ out' = out \o <<"MENU", "INVALID_CHOICE">>
                /\ pc' = "done"
    /\ UNCHANGED <<client_id, client_secret, token, tokenCalls, queryCalls, tokenResp,
                   queryResp, rowsLeft, row, report, d, cardinal>>

\* token = get_opensky_token(), and main's test of the token.
GetToken ==
    /\ pc = "token"
    /\ IF MissingCredentials(client_id, client_secret)
       THEN /\ out' = out \o <<"ERR_CREDENTIALS">>
            /\ token' = None
            /\ UNCHANGED <<tokenCalls, tokenResp>>
       ELSE \E resp \in TokenResponses :
            /\ tokenCalls' = tokenCalls + 1
            /\ tokenResp' = resp
            /\ token' = TokenOf(resp)
            /\ out' = out \o <<TokenNotice(resp)>>
    /\ pc' = AfterToken(token')
    /\ UNCHANGED <<client_id, client_secret, choice, queryCalls, queryResp, rowsLeft,
                   row, report, d, cardinal>>

\* find_airplanes up to the for loop: the request and the test of plane_list.
FindAirplanes ==
    /\ pc = "query"
    /\ \E resp \in QueryResponses :
        /\ queryCalls' = queryCalls + 1
        /\ queryResp' = resp
        /\ IF RequestRaised(resp)
           THEN /\ out' = out \o <<"INFO_SEARCH", "ERR_QUERY">>
                /\ pc' = "done"
                /\ UNCHANGED rowsLeft
           ELSE IF PlaneListEmpty(resp)
           THEN /\ out' = out \o <<"INFO_SEARCH", "NO_AIRCRAFT">>
                /\ pc' = "done"
                /\ UNCHANGED rowsLeft
           ELSE /\ out' = out \o <<"INFO_SEARCH", "INFO_FOUND">>
                /\ rowsLeft' = resp.len
                /\ pc' = IF resp.len > 0 THEN "loop" ELSE "done"
    /\ UNCHANGED <<client_id, client_secret, choice, token, tokenCalls, tokenResp,
                   row, report, d, cardinal>>

\* One iteration of `for plane_vector in plane_list`.  The content of the row
\* is read here, when the loop reaches it.  An exception leaves the loop for
\* the except clause of find_airplanes.
ReportRow ==
    /\ pc = "loop"
    /\ \E r \in Rows :
        /\ row' = r
        /\ IF RaisesIndexError(r)
           THEN /\ out' = out \o <<"ERR_QUERY">>
                /\ pc' = "done"
                /\ UNCHANGED <<report, rowsLeft>>
           ELSE /\ report' = FormatRow(r)
                /\ out' = out \o <<"REPORT">>
                /\ rowsLeft' = rowsLeft - 1
                /\ pc' = IF rowsLeft - 1 > 0 THEN "loop" ELSE "done"
    /\ UNCHANGED <<client_id, client_secret, choice, token, tokenCalls, queryCalls,
                   tokenResp, queryResp, d, cardinal>>

Next == Main \/ GetToken \/ FindAirplanes \/ ReportRow

Spec == Init /\ [][Next]_vars

(***************************************************************************)
(* degrees_to_cardinal called on its own, on a grid of quarter degrees     *)
(* from 0 to twice MaxGrid quarter degrees (two turns).                    *)
(***************************************************************************)
Grid == {25 * k : k \in 0..(2 * MaxGrid)}

InitCardinal ==
    /\ client_id = None
    /\ client_secret = None
    /\ pc = "call"
    /\ choice = ""
    /\ token = None
    /\ tokenCalls = 0
    /\ queryCalls = 0
    /\ tokenResp = NoResponse
    /\ queryResp = NoQueryResponse
    /\ rowsLeft = 0
    /\ row = << >>
    /\ report = NoReport
    /\ out = << >>
    /\ d \in Grid
    /\ cardinal = ""

CallCardinal ==
    /\ pc = "call"
    /\ cardinal' = degrees_to_cardinal(d)
    /\ pc' = "returned"
    /\ UNCHANGED <<client_id, client_secret, choice, token, tokenCalls, queryCalls,
                   tokenResp, queryResp, rowsLeft, row, report, out, d>>

NextCardinal == CallCardinal

SpecCardinal == InitCardinal /\ [][NextCardinal]_vars

(***************************************************************************)
(* Vocabulary of the properties.                                           *)
(***************************************************************************)
Has(kind) == \E i \in 1..Len(out) : out[i] = kind

Count(kind) == Cardinality({i \in 1..Len(out) : out[i] = kind})

HasError == Has("ERR_CREDENTIALS") \/ Has("ERR_TOKEN") \/ Has("ERR_QUERY")

\* get_opensky_token has returned in a run whose choice was valid.
TokenStageOver == pc \in {"query", "loop", "done"} /\ choice \in LOCATIONS

CredentialMissing ==
    client_id \in {None, Some("")} \/ client_secret \in {None, Some("")}

\* The token endpoint answered with success and an object that has no access_token.
TokenFieldMissing ==
    /\ tokenResp.kind = "response"
    /\ tokenResp.status = 200
    /\ tokenResp.format = "object"
    /\ tokenResp.access_token = None

\* The token stage failed: no credentials, a transport error, a non-success
\* status, or a body that yields no token.
TokenStageFailed ==
    /\ TokenStageOver
    /\ \/ CredentialMissing
       \/ tokenResp.kind = "exception"
       \/ tokenResp.status # 200
       \/ tokenResp.format # "object"
       \/ tokenResp.access_token \in {None, Some("")}

\* The latest thing printed is the report of `row`.
RowReported == Len(out) > 0 /\ out[Len(out)] = "REPORT"

\* C1: the state-vector query is issued only after the token stage returned a
\* token, and a run whose token stage failed for any reason makes no query
\* call and prints no aircraft report.
C1_QueryOnlyAfterToken ==
    /\ queryCalls > 0 =>
          /\ tokenCalls = 1
          /\ tokenResp.kind = "response" /\ tokenResp.status = 200
          /\ tokenResp.access_token = Some("T")
          /\ token = Some("T")
    /\ TokenStageFailed => queryCalls = 0 /\ ~Has("REPORT") /\ pc = "done"

C1_Witness ==
    /\ pc = "done" /\ tokenCalls = 1 /\ tokenResp.kind = "response"
    /\ tokenResp.status = 401 /\ queryCalls = 0 /\ Has("ERR_TOKEN")

\* C2: with either credential empty or unset, get_opensky_token reports the
\* missing credentials and returns no token, and the run makes no request to
\* the token endpoint or to the query endpoint.
C2_NoCallWithoutCredentials ==
    CredentialMissing =>
        /\ tokenCalls = 0
        /\ queryCalls = 0
        /\ TokenStageOver => Has("ERR_CREDENTIALS") /\ token = None /\ pc = "done"

C2_Witness ==
    /\ pc = "done" /\ client_id = Some("secret") /\ client_secret = Some("")
    /\ Has("ERR_CREDENTIALS") /\ tokenCalls = 0

\* C3: when the token endpoint answers with success and a body without
\* access_token, get_opensky_token reports a failure and never a success.
C3_MalformedTokenResponseIsFailure ==
    TokenStageOver /\ TokenFieldMissing =>
        Has("ERR_TOKEN") /\ ~Has("SUCCESS_TOKEN") /\ token = None

\* C4: when the query succeeds and `states` is null, absent or an empty list,
\* the run prints the "no aircraft found" notice, no error notice and no
\* aircraft report.
C4_EmptyStatesIsNoError ==
    (/\ queryResp.kind = "response" /\ queryResp.status = 200
     /\ queryResp.format = "object"
     /\ queryResp.states \in {"absent", "null"} \/ queryResp.len = 0)
    => /\ Count("NO_AIRCRAFT") = 1
       /\ ~HasError
       /\ ~Has("REPORT")
       /\ pc = "done"

C4_Witness ==
    /\ queryResp.kind = "response" /\ queryResp.status = 200
    /\ queryResp.states = "list" /\ queryResp.len = 0
    /\ Has("NO_AIRCRAFT") /\ pc = "done"

\* C5: every finished run with a valid choice printed exactly one of: (a) one
\* report for each row of the response and no error notice, (b) the "no
\* aircraft found" notice, (c) an error notice and no aircraft report.
C5_ExactlyOneOutcome ==
    pc = "done" /\ choice \in LOCATIONS =>
        \/ /\ queryResp.states = "list" /\ queryResp.len > 0
           /\ Count("REPORT") = queryResp.len
           /\ ~HasError /\ ~Has("NO_AIRCRAFT")
        \/ /\ Has("NO_AIRCRAFT")
           /\ ~HasError /\ ~Has("REPORT")
        \/ /\ HasError
           /\ ~Has("REPORT") /\ ~Has("NO_AIRCRAFT")

\* The fields of a full row that are null are printed as "Unknown".
NullsUnknown(r, rep) ==
    /\ Item(r, 1) = None => rep.callsign = "Unknown"
    /\ Item(r, 3) = None => rep.lastUpdate = "Unknown"
    /\ Item(r, 7) = None => rep.altitude = "Unknown"
    /\ Item(r, 9) = None => rep.velocity = "Unknown"
    /\ Item(r, 10) = None => rep.track = "Unknown"
    /\ Item(r, 13) = None => rep.geoAltitude = "Unknown"
    /\ Item(r, 11) = None /\ ~Item(r, 8) => rep.status = "In the air (level)"

\* C6: a row of full length with any subset of its nullable fields null is
\* reported without an error, each null field as "Unknown" (status "In the air
\* (level)" when not on the ground and the vertical rate is null), and the
\* loop goes on to the rows that follow.
C6_FormattingIsTotal ==
    [][pc = "loop" /\ Len(row') >= 17 =>
          /\ out' = Append(out, "REPORT")
          /\ NullsUnknown(row', report')
          /\ rowsLeft' = rowsLeft - 1
          /\ pc' = IF rowsLeft > 1 THEN "loop" ELSE "done"]_vars

C6_Witness ==
    /\ Count("REPORT") = 2 /\ ~HasError /\ pc = "done"
    /\ row = MkRow(None, None, None, FALSE, None, None, None, None)
    /\ report.status = "In the air (level)" /\ report.velocity = "Unknown"
    /\ report.callsign = "Unknown" /\ report.track = "Unknown"

\* C7: status is "On the ground" when onGround, whatever the vertical rate;
\* else "In the air (level)" when the rate is absent; else "Climbing" above
\* 0.3, "Descending" (the magnitude) below -0.3, "In the air (level)" from
\* -0.3 to 0.3 inclusive; the rate is shown to one decimal, 0.31 as 0.3.
C7_StatusOrder ==
    RowReported =>
        LET og == Item(row, 8)
            vr == Item(row, 11)
        IN  /\ og => report.status = "On the ground"
            /\ ~og /\ vr = None => report.status = "In the air (level)"
            /\ ~og /\ vr # None =>
                  report.status =
                    CASE Val(vr) = 31 -> "Climbing (0.3 m/s)"
                      [] Val(vr) = 120 -> "Climbing (1.2 m/s)"
                      [] Val(vr) = -31 -> "Descending (0.3 m/s)"
                      [] Val(vr) = -120 -> "Descending (1.2 m/s)"
                      [] Val(vr) >= -30 /\ Val(vr) <= 30 -> "In the air (level)"

C7_Witness ==
    /\ RowReported /\ ~Item(row, 8) /\ Item(row, 11) = Some(-31)
    /\ report.status = "Descending (0.3 m/s)"

AllBlank(c) == \A i \in 1..Len(c) : c[i] = " "

\* C8: a callsign that is null, empty or only whitespace is shown as
\* "Unknown"; any other is shown stripped; the shown callsign is never empty.
C8_CallsignNormalized ==
    RowReported =>
        LET c == Item(row, 1)
        IN  /\ c = None \/ AllBlank(Val(c)) => report.callsign = "Unknown"
            /\ c # None /\ ~AllBlank(Val(c)) => report.callsign = Str(Strip(Val(c)))
            /\ report.callsign # ""

\* C9: for d on the grid, degrees_to_cardinal(d) is one of the 16 labels, the
\* label of a sector whose centre is nearest to d (within 11.25 degrees);
\* 0 and 360 give "N"; d and d + 360 give the same label, sector boundaries
\* included.
C9_CardinalNearestAndPeriodic ==
    pc = "returned" =>
        /\ \E i \in 1..16 : cardinal = dirs[i]
        /\ \E k \in 0..((d \div 2250) + 1) :
              /\ cardinal = dirs[(k % 16) + 1]
              /\ Abs(d - 2250 * k) <= 1125
        /\ d \in {0, 36000} => cardinal = "N"
        /\ d = 1100 => cardinal = "N"
        /\ d = 18000 => cardinal = "S"
        /\ d = 35000 => cardinal = "N"
        /\ cardinal = degrees_to_cardinal(d + 36000)

C9_Witness == pc = "returned" /\ d = 36000 + 3375 /\ cardinal = "NE"

TokenRequestFailed ==
    tokenResp.kind = "exception" \/ (tokenResp.kind = "response" /\ tokenResp.status # 200)

QueryRequestFailed ==
    queryResp.kind = "exception" \/ (queryResp.kind = "response" /\ queryResp.status # 200)

\* C10: a run requests the token endpoint at most once and the state-vector
\* endpoint at most once, and a failed request of either ends the run with no
\* further request.
C10_NoRetry ==
    /\ tokenCalls <= 1
    /\ queryCalls <= 1
    /\ TokenRequestFailed => pc = "done" /\ tokenCalls = 1 /\ queryCalls = 0
    /\ QueryRequestFailed => pc = "done" /\ tokenCalls = 1 /\ queryCalls = 1

C10_Witness ==
    /\ queryResp.kind = "exception" /\ pc = "done"
    /\ tokenCalls = 1 /\ queryCalls = 1 /\ Has("ERR_QUERY")

====
